---- MODULE Spec2Model ----
(***************************************************************************)
(* A model of the YouTube downloader: the configuration loader, the option *)
(* resolver, the download orchestrator with its statistics record and      *)
(* progress callback (src/downloader.py) and the command-line front end    *)
(* (src/cli.py).  The extraction engine (yt_dlp) is an opaque environment: *)
(* it emits progress events and then returns or raises.                    *)
(*                                                                         *)
(* Python strings that the code takes apart or formats (quality, format,   *)
(* format selector) are sequences of one-character strings; every other    *)
(* string is an opaque TLA+ string.  Python's None is the token None.      *)
(***************************************************************************)
EXTENDS Integers, Sequences, FiniteSets, TLC

VARIABLES
    obj,             \* [state, config_file]: the outcome of YouTubeDownloader(config_file),
                     \* state "absent" | "ready" | "raised"
    config,          \* self.config
    download_stats,  \* self.download_stats
    op,              \* the download call in progress: "idle" | "single" | "batch" | "playlist"
    stage,           \* where that call stands: "idle" | "called" | "engine" | "loop"
    kwargs,          \* the **kwargs of the call in progress
    urls,            \* the URL argument(s) of the current or last download call, as a list
    idx,             \* download_batch: number of list elements the for loop has consumed
    results,         \* download_batch: the results dict
    engine,          \* the running yt_dlp.YoutubeDL: [url, opts], or NoEngine
    ret,             \* how the last call ended: [op, kind, value]
    call,            \* the statistics at the entry of the current or last call
                     \* (inside download_batch: of the current or last download_single)
    log,             \* the download_single calls completed within the current or last call
    failing,         \* environment: the URLs on which the engine raises
    args,            \* cli: the parsed argparse.Namespace
    cli_pc,          \* cli: position of main()
    exit_code,       \* cli: the process exit status, or NoExit while running
    batch_file,      \* cli: the file named by --batch
    stdout           \* cli: what main() has printed

vars == <<obj, config, download_stats, op, stage, kwargs, urls, idx, results, engine,
          ret, call, log, failing, args, cli_pc, exit_code, batch_file, stdout>>

objVars == <<obj, config>>
callVars == <<op, stage, kwargs, urls, idx, results, engine, ret, call, log>>
cliVars == <<args, cli_pc, exit_code, batch_file, stdout>>

-----------------------------------------------------------------------------
(* Bounds of the model *)

\* download_single may start only while total_downloads is below this
MaxTotal == 2
\* a 'finished' event is delivered only while successful_downloads is below this
MaxFinished == 1
\* largest total_bytes a progress event reports
MaxBytes == 1
\* longest URL list handed to download_batch
MaxBatch == 2

-----------------------------------------------------------------------------
(* Values *)

None == "None"
ZeroStats == [total_downloads |-> 0, successful_downloads |-> 0,
              failed_downloads |-> 0, total_size |-> 0]
NoEngine == [url |-> None, opts |-> << >>]
NoRet == [op |-> "none", kind |-> "none", value |-> None, cause |-> "none"]
NoExit == -1
NoArgs == << >>
NoInfo == [absent |-> TRUE]
NoObj == [state |-> "absent", config_file |-> None]
NoFile == [state |-> "absent", lines |-> << >>]

URLs == {"u1", "u2"}

S_best == <<"b", "e", "s", "t">>
S_worst == <<"w", "o", "r", "s", "t">>
S_bestaudio == <<"b", "e", "s", "t", "a", "u", "d", "i", "o">>
S_slash == <<"/">>
S_ext == <<"[", "e", "x", "t", "=">>
S_height == <<"[", "h", "e", "i", "g", "h", "t", "<", "=">>
S_close == <<"]">>
Q720p == <<"7", "2", "0", "p">>
Q480p == <<"4", "8", "0", "p">>
Q1080p == <<"1", "0", "8", "0", "p">>
F_mp4 == <<"m", "p", "4">>
F_webm == <<"w", "e", "b", "m">>
F_mkv == <<"m", "k", "v">>

Digits == {"0", "1", "2", "3", "4", "5", "6", "7", "8", "9"}

-----------------------------------------------------------------------------
(* Python primitives *)

\* dict.get(key, default)
Get(d, key, default) == IF key \in DOMAIN d THEN d[key] ELSE default

\* truth value of an Optional[str]
Truthy(v) == v # None /\ v # ""

\* str.replace(old, new) for a one-character old
RECURSIVE StrReplace(_, _, _)
StrReplace(s, old, new) ==
    IF s = << >> THEN << >>
    ELSE (IF Head(s) = old THEN new ELSE <<Head(s)>>) \o StrReplace(Tail(s), old, new)

\* str.lower() on the file suffixes of the model
SuffixLower(s) ==
    CASE s = ".YAML" -> ".yaml"
      [] s = ".JSON" -> ".json"
      [] OTHER -> s

\* str(output_dir / filename_template)
PathJoin(dir, name) == <<dir, name>>

-----------------------------------------------------------------------------
(* Configuration Loader *)

_get_default_config ==
    [default_quality |-> Q720p,
     default_format |-> F_mp4,
     output_directory |-> "./downloads",
     max_concurrent_downloads |-> 3,
     retry_attempts |-> 3,
     timeout |-> 30,
     extract_audio |-> FALSE,
     audio_format |-> "mp3",
     download_subtitles |-> FALSE,
     subtitle_languages |-> <<"en">>,
     filename_template |-> "%(title)s.%(ext)s",
     rate_limit |-> None]

\* a complete configuration file that differs from the defaults in every option
CustomConfig ==
    [default_quality |-> Q1080p,
     default_format |-> F_mkv,
     output_directory |-> "/data",
     max_concurrent_downloads |-> 1,
     retry_attempts |-> 5,
     timeout |-> 10,
     extract_audio |-> FALSE,
     audio_format |-> "wav",
     download_subtitles |-> TRUE,
     subtitle_languages |-> <<"de">>,
     filename_template |-> "%(id)s.%(ext)s",
     rate_limit |-> "500K"]

\* a configuration file that sets one key only
PartialConfig == [default_quality |-> Q480p]

\* What can be at the path given to the constructor.  parse: what yaml.safe_load /
\* json.load does with the content; readable: whether open() succeeds.
ConfigFiles ==
    {[exists |-> FALSE, suffix |-> ".yaml", readable |-> FALSE, parse |-> "error",
      content |-> << >>],
     [exists |-> TRUE, suffix |-> ".yaml", readable |-> TRUE, parse |-> "ok",
      content |-> CustomConfig],
     [exists |-> TRUE, suffix |-> ".JSON", readable |-> TRUE, parse |-> "ok",
      content |-> PartialConfig],
     [exists |-> TRUE, suffix |-> ".yaml", readable |-> TRUE, parse |-> "error",
      content |-> << >>],
     [exists |-> TRUE, suffix |-> ".json", readable |-> FALSE, parse |-> "error",
      content |-> << >>],
     [exists |-> TRUE, suffix |-> ".txt", readable |-> TRUE, parse |-> "ok",
      content |-> CustomConfig]}

\* self.logger.warning / self.logger.error inside _load_config: the attribute
\* exists only once __init__ has assigned it.
LoggerCall(has_logger) == IF has_logger THEN "ok" ELSE "AttributeError"

\* _load_config: [raised, value].  An exception inside the try block runs the
\* handler, which logs through self.logger before it returns the defaults; an
\* exception raised by the handler itself leaves the method.
_load_config(file, has_logger) ==
    LET handler == IF LoggerCall(has_logger) = "ok"
                   THEN [raised |-> FALSE, value |-> _get_default_config]
                   ELSE [raised |-> TRUE, value |-> << >>]
    IN  IF ~file.exists THEN [raised |-> FALSE, value |-> _get_default_config]
        ELSE IF ~file.readable THEN handler
        ELSE IF SuffixLower(file.suffix) \in {".yaml", ".json"}
             THEN IF file.parse = "ok"
                  THEN [raised |-> FALSE, value |-> file.content]
                  ELSE handler
        ELSE IF LoggerCall(has_logger) = "ok"
             THEN [raised |-> FALSE, value |-> _get_default_config]
             ELSE handler

-----------------------------------------------------------------------------
(* Option Resolver *)

\* the Configuration keys _get_ydl_opts and _get_format_selector subscript
ConfigKeysRead ==
    {"output_directory", "default_quality", "default_format", "extract_audio",
     "filename_template", "download_subtitles", "subtitle_languages",
     "audio_format", "retry_attempts", "timeout"}

\* a selector whose fallback chain tries the height-only alternative first
_get_format_selector_swapped(cfg, kw) ==
    LET quality == Get(kw, "quality", cfg["default_quality"])
        format_type == Get(kw, "format", cfg["default_format"])
    IN  IF Get(kw, "extract_audio", cfg["extract_audio"])
        THEN S_bestaudio \o S_slash \o S_best
        ELSE IF quality = S_best
             THEN S_best \o S_ext \o format_type \o S_close \o S_slash \o S_best
        ELSE IF quality = S_worst
             THEN S_worst \o S_ext \o format_type \o S_close \o S_slash \o S_worst
        ELSE LET height == StrReplace(quality, "p", << >>)
             IN  S_best \o S_height \o height \o S_close
                 \o S_slash \o S_best \o S_height \o height \o S_close
                        \o S_ext \o format_type \o S_close
                 \o S_slash \o S_best

_get_format_selector(cfg, kw) ==
    LET quality == Get(kw, "quality", cfg["default_quality"])
        format_type == Get(kw, "format", cfg["default_format"])
    IN  IF Get(kw, "extract_audio", cfg["extract_audio"])
        THEN S_bestaudio \o S_slash \o S_best
        ELSE IF quality = S_best
             THEN S_best \o S_ext \o format_type \o S_close \o S_slash \o S_best
        ELSE IF quality = S_worst
             THEN S_worst \o S_ext \o format_type \o S_close \o S_slash \o S_worst
        ELSE LET height == StrReplace(quality, "p", << >>)
             IN  S_best \o S_height \o height \o S_close
                        \o S_ext \o format_type \o S_close
                 \o S_slash \o S_best \o S_height \o height \o S_close
                 \o S_slash \o S_best

\* the 'ratelimit' entry _get_ydl_opts adds to the option record
RateLimitEntry(cfg, kw) ==
    IF Truthy(Get(cfg, "rate_limit", None))
    THEN [ratelimit |-> cfg["rate_limit"]]
    ELSE << >>

\* _get_ydl_opts: [raised, opts].  Every default self.config[...] is evaluated
\* whether or not the override is present, so a Configuration that lacks a key
\* raises KeyError; mkdir_ok is whether Path.mkdir succeeds.
_get_ydl_opts(cfg, kw, mkdir_ok) ==
    IF ~(ConfigKeysRead \subseteq DOMAIN cfg) \/ ~mkdir_ok
    THEN [raised |-> TRUE, opts |-> << >>]
    ELSE LET output_dir == Get(kw, "output_directory", cfg["output_directory"])
         IN  [raised |-> FALSE,
              opts |->
                [format |-> _get_format_selector(cfg, kw),
                 outtmpl |-> PathJoin(output_dir,
                                      Get(kw, "filename_template", cfg["filename_template"])),
                 writesubtitles |-> Get(kw, "download_subtitles", cfg["download_subtitles"]),
                 writeautomaticsub |-> Get(kw, "download_subtitles", cfg["download_subtitles"]),
                 subtitleslangs |-> Get(kw, "subtitle_languages", cfg["subtitle_languages"]),
                 ignoreerrors |-> TRUE,
                 no_warnings |-> FALSE,
                 extractaudio |-> Get(kw, "extract_audio", cfg["extract_audio"]),
                 audioformat |-> Get(kw, "audio_format", cfg["audio_format"]),
                 retries |-> Get(kw, "retry_attempts", cfg["retry_attempts"]),
                 socket_timeout |-> Get(kw, "timeout", cfg["timeout"])]
                @@ RateLimitEntry(cfg, kw)]

-----------------------------------------------------------------------------
(* Progress Reporter *)

\* the progress events the engine may deliver: d['status'], with or without
\* d['total_bytes']
DownloadingEvents ==
    {[status |-> "downloading", downloaded_bytes |-> 0],
     [status |-> "downloading", downloaded_bytes |-> 0, total_bytes |-> 1]}

FinishedEvents ==
    {[status |-> "finished", filename |-> "f"]}
    \cup {[status |-> "finished", filename |-> "f", total_bytes |-> b] : b \in 0..MaxBytes}

\* _progress_hook: the statistics record it leaves ('downloading' only prints)
_progress_hook(stats, d) ==
    IF d["status"] = "downloading"
    THEN stats
    ELSE IF d["status"] = "finished"
    THEN [stats EXCEPT
            !.successful_downloads = @ + 1,
            !.total_size = IF "total_bytes" \in DOMAIN d THEN @ + d["total_bytes"] ELSE @]
    ELSE stats

-----------------------------------------------------------------------------
(* Download Orchestrator *)

\* results[url] = value
Put(d, k, v) == [x \in (DOMAIN d) \cup {k} |-> IF x = k THEN v ELSE d[x]]

\* download_single, first statements of the try block
download_single_enter(stats) == [stats EXCEPT !.total_downloads = @ + 1]

\* a success path that counts the success itself
download_single_return_counts_success(stats) ==
    [stats |-> [stats EXCEPT !.successful_downloads = @ + 1],
     kind |-> "return", value |-> TRUE]

\* download_single, the statement after the with block
download_single_return(stats) == [stats |-> stats, kind |-> "return", value |-> TRUE]

\* a handler that returns False without counting the failure
download_single_except_uncounted(stats) ==
    [stats |-> stats, kind |-> "return", value |-> FALSE]

\* a handler that logs, counts and raises again
download_single_except_reraise(stats) ==
    [stats |-> [stats EXCEPT !.failed_downloads = @ + 1], kind |-> "raise", value |-> FALSE]

\* download_single, the except Exception handler
download_single_except(stats) ==
    [stats |-> [stats EXCEPT !.failed_downloads = @ + 1], kind |-> "return", value |-> FALSE]

\* download_playlist, the statement after the with block
download_playlist_return(stats) == [stats |-> stats, kind |-> "return", value |-> TRUE]

\* download_playlist, the except Exception handler
download_playlist_except(stats) == [stats |-> stats, kind |-> "return", value |-> FALSE]

\* a reset that forgets total_size
reset_stats_keeps_size == [ZeroStats EXCEPT !.total_size = download_stats.total_size]

reset_stats == ZeroStats

get_download_stats == download_stats

\* get_video_info(url): the snapshot, or None (NoInfo) when the engine raises
get_video_info(url, view_count) ==
    IF url \in failing THEN NoInfo
    ELSE [absent |-> FALSE, title |-> url, view_count |-> view_count]

\* A download call is made: its arguments are bound.
Call(o, us, kw) ==
    /\ obj.state = "ready" /\ op = "idle"
    /\ download_stats.total_downloads + (IF o = "playlist" THEN 0 ELSE Len(us)) <= MaxTotal
    /\ op' = o
    /\ stage' = IF o = "batch" THEN "loop" ELSE "called"
    /\ kwargs' = kw
    /\ urls' = us
    /\ idx' = 0
    /\ results' = << >>
    /\ engine' = NoEngine
    /\ ret' = NoRet
    /\ call' = download_stats
    /\ log' = << >>
    /\ UNCHANGED <<objVars, download_stats, failing>>

\* A call that is one step (get_video_info, get_download_stats, reset_stats).
AtomicCall(o, value, stats) ==
    /\ obj.state = "ready" /\ op = "idle"
    /\ ret' = [op |-> o, kind |-> "return", value |-> value, cause |-> "none"]
    /\ download_stats' = stats
    /\ call' = download_stats
    /\ urls' = << >>
    /\ log' = << >>
    /\ UNCHANGED <<objVars, op, stage, kwargs, idx, results, engine, failing>>

\* The download call in progress ends: it returns value or an exception leaves
\* it; cause is what raised inside it ("none", "options", "engine", "interrupt").
EndCall(kind, value, cause) ==
    /\ op' = "idle"
    /\ stage' = "idle"
    /\ kwargs' = << >>
    /\ idx' = 0
    /\ results' = << >>
    /\ engine' = NoEngine
    /\ ret' = [op |-> op, kind |-> kind, value |-> value, cause |-> cause]

\* a loop that returns the results at the first download_single that fails
SingleDone_stops_on_failure(url, out, cause, entry) ==
    LET rec == [url |-> url, kind |-> out.kind, ret |-> out.value, cause |-> cause,
                d_total |-> out.stats.total_downloads - entry.total_downloads,
                d_failed |-> out.stats.failed_downloads - entry.failed_downloads,
                d_successful |-> out.stats.successful_downloads - entry.successful_downloads,
                d_size |-> out.stats.total_size - entry.total_size]
    IN  /\ download_stats' = out.stats
        /\ log' = Append(log, rec)
        /\ IF op = "single" \/ out.kind # "return"
           THEN EndCall(out.kind, out.value, cause)
           ELSE IF ~out.value
           THEN EndCall("return", Put(results, url, out.value), "none")
           ELSE /\ stage' = "loop"
                /\ results' = Put(results, url, out.value)
                /\ idx' = idx + 1
                /\ engine' = NoEngine
                /\ UNCHANGED <<op, kwargs, ret>>
        /\ UNCHANGED <<objVars, urls, failing>>

\* The end of one download_single: out is what its return statement or handler
\* produced, cause is what raised ("none", "options", "engine"), entry the
\* statistics when it was entered.  A standalone call ends the download call;
\* inside download_batch the value goes to results[url] and the loop goes on, and
\* an exception leaving download_single would leave download_batch too.
SingleDone(url, out, cause, entry) ==
    LET rec == [url |-> url, kind |-> out.kind, ret |-> out.value, cause |-> cause,
                d_total |-> out.stats.total_downloads - entry.total_downloads,
                d_failed |-> out.stats.failed_downloads - entry.failed_downloads,
                d_successful |-> out.stats.successful_downloads - entry.successful_downloads,
                d_size |-> out.stats.total_size - entry.total_size]
    IN  /\ download_stats' = out.stats
        /\ log' = Append(log, rec)
        /\ IF op = "single" \/ out.kind # "return"
           THEN EndCall(out.kind, out.value, cause)
           ELSE /\ stage' = "loop"
                /\ results' = Put(results, url, out.value)
                /\ idx' = idx + 1
                /\ engine' = NoEngine
                            /\ UNCHANGED <<op, kwargs, ret>>
        /\ UNCHANGED <<objVars, urls, failing>>

\* download_single from its entry to the engine call, or to its end when option
\* resolution raises
SingleEnter(url, mkdir_ok) ==
    LET entered == download_single_enter(download_stats)
        r == _get_ydl_opts(config, kwargs, mkdir_ok)
    IN  /\ call' = download_stats
        /\ IF r.raised
           THEN SingleDone(url, download_single_except(entered), "options", download_stats)
           ELSE /\ download_stats' = entered
                /\ engine' = [url |-> url,
                              opts |-> r.opts @@ [progress_hooks |-> "_progress_hook"]]
                /\ stage' = "engine"
                /\ UNCHANGED <<objVars, op, kwargs, urls, idx, results, ret, log, failing>>

-----------------------------------------------------------------------------
(* The orchestrator's operations as steps.  An engine run is a sequence of     *)
(* steps (progress events, then return or raise), so a download call spans    *)
(* several steps; everything else is one step.                                *)

\* YouTubeDownloader.__init__
__init__(file) ==
    LET r == _load_config(file, FALSE)
    IN  IF r.raised
        THEN /\ obj' = [state |-> "raised", config_file |-> file]
             /\ UNCHANGED <<config, download_stats>>
        ELSE /\ obj' = [state |-> "ready", config_file |-> file]
             /\ config' = r.value
             /\ download_stats' = ZeroStats

\* download_single up to the engine call
download_single ==
    /\ op = "single" /\ stage = "called"
    /\ \E mkdir_ok \in BOOLEAN : SingleEnter(urls[1], mkdir_ok)
    /\ UNCHANGED cliVars

\* download_batch: one iteration of the for loop enters download_single
download_batch ==
    /\ op = "batch" /\ stage = "loop" /\ idx < Len(urls)
    /\ \E mkdir_ok \in BOOLEAN : SingleEnter(urls[idx + 1], mkdir_ok)
    /\ UNCHANGED cliVars

\* download_batch: the loop is exhausted, return results
download_batch_return ==
    /\ op = "batch" /\ stage = "loop" /\ idx = Len(urls)
    /\ EndCall("return", results, "none")
    /\ UNCHANGED <<objVars, download_stats, urls, call, log, failing, cliVars>>

\* download_playlist up to the engine call, or to its end when option
\* resolution raises
download_playlist ==
    /\ op = "playlist" /\ stage = "called"
    /\ \E mkdir_ok \in BOOLEAN :
         LET r == _get_ydl_opts(config, kwargs, mkdir_ok)
         IN  IF r.raised
             THEN LET out == download_playlist_except(download_stats)
                  IN  /\ download_stats' = out.stats
                      /\ EndCall(out.kind, out.value, "options")
             ELSE /\ stage' = "engine"
                  /\ engine' = [url |-> urls[1],
                                opts |-> r.opts @@ [progress_hooks |-> "_progress_hook"]]
                  /\ UNCHANGED <<download_stats, op, kwargs, idx, results, ret>>
    /\ UNCHANGED <<objVars, urls, call, log, failing, cliVars>>

\* the engine calls the progress hook
Progress(d) ==
    /\ stage = "engine"
    /\ d["status"] = "finished" => download_stats.successful_downloads < MaxFinished
    /\ download_stats' = _progress_hook(download_stats, d)
    /\ UNCHANGED <<objVars, callVars, failing, cliVars>>

ProgressDownloading == \E d \in DownloadingEvents : Progress(d)

ProgressFinished == \E d \in FinishedEvents : Progress(d)

\* ydl.download returns
EngineReturn ==
    /\ stage = "engine" /\ engine.url \notin failing
    /\ IF op = "playlist"
       THEN LET out == download_playlist_return(download_stats)
            IN  /\ download_stats' = out.stats
                /\ EndCall(out.kind, out.value, "none")
                /\ UNCHANGED <<objVars, urls, log, failing>>
       ELSE SingleDone(engine.url, download_single_return(download_stats), "none", call)
    /\ UNCHANGED <<call, cliVars>>

\* ydl.download raises an Exception
EngineRaise ==
    /\ stage = "engine" /\ engine.url \in failing
    /\ IF op = "playlist"
       THEN LET out == download_playlist_except(download_stats)
            IN  /\ download_stats' = out.stats
                /\ EndCall(out.kind, out.value, "engine")
                /\ UNCHANGED <<objVars, urls, log, failing>>
       ELSE SingleDone(engine.url, download_single_except(download_stats), "engine", call)
    /\ UNCHANGED <<call, cliVars>>

\* the user interrupts a download call: KeyboardInterrupt is no Exception, so no
\* handler of the orchestrator catches it and it leaves the call
Interrupt ==
    /\ op # "idle"
    /\ EndCall("raise", "KeyboardInterrupt", "interrupt")
    /\ UNCHANGED <<objVars, download_stats, urls, call, log, failing, cliVars>>

-----------------------------------------------------------------------------
(* A program that uses one YouTubeDownloader object: it constructs it and     *)
(* then calls its methods in any order, one call at a time.                   *)

\* the keyword overrides the calling program passes
ClientKwargs ==
    {<< >>,
     [quality |-> S_best, format |-> F_webm, rate_limit |-> "1M"]}

\* the URL lists handed to download_batch
UrlLists == UNION {[1..n -> URLs] : n \in 0..MaxBatch}

ClientConstruct ==
    /\ cli_pc = "off" /\ obj.state # "ready"
    /\ \E file \in ConfigFiles : __init__(file)
    /\ UNCHANGED <<callVars, failing, cliVars>>

ClientSingle ==
    /\ cli_pc = "off"
    /\ \E url \in URLs, kw \in ClientKwargs : Call("single", <<url>>, kw)
    /\ UNCHANGED cliVars

ClientBatch ==
    /\ cli_pc = "off"
    /\ \E us \in UrlLists, kw \in ClientKwargs : Call("batch", us, kw)
    /\ UNCHANGED cliVars

ClientPlaylist ==
    /\ cli_pc = "off"
    /\ \E url \in URLs, kw \in ClientKwargs : Call("playlist", <<url>>, kw)
    /\ UNCHANGED cliVars

ClientInfo ==
    /\ cli_pc = "off"
    /\ \E url \in URLs, view_count \in {None, "1"} :
         AtomicCall("info", get_video_info(url, view_count), download_stats)
    /\ UNCHANGED cliVars

ClientStats ==
    /\ cli_pc = "off"
    /\ AtomicCall("stats", get_download_stats, download_stats)
    /\ UNCHANGED cliVars

ClientReset ==
    /\ cli_pc = "off"
    /\ AtomicCall("reset", None, reset_stats)
    /\ UNCHANGED cliVars

Init ==
    /\ obj = NoObj
    /\ config = << >>
    /\ download_stats = ZeroStats
    /\ op = "idle"
    /\ stage = "idle"
    /\ kwargs = << >>
    /\ urls = << >>
    /\ idx = 0
    /\ results = << >>
    /\ engine = NoEngine
    /\ ret = NoRet
    /\ call = ZeroStats
    /\ log = << >>
    /\ failing \in SUBSET URLs
    /\ args = NoArgs
    /\ cli_pc = "off"
    /\ exit_code = NoExit
    /\ batch_file = NoFile
    /\ stdout = << >>

Next ==
    \/ ClientConstruct
    \/ ClientSingle
    \/ ClientBatch
    \/ ClientPlaylist
    \/ ClientInfo
    \/ ClientStats
    \/ ClientReset
    \/ download_single
    \/ download_batch
    \/ download_batch_return
    \/ download_playlist
    \/ ProgressDownloading
    \/ ProgressFinished
    \/ EngineReturn
    \/ EngineRaise
    \/ Interrupt

Spec == Init /\ [][Next]_vars

-----------------------------------------------------------------------------
(* CLI Front-End: main() of src/cli.py as a process of its own.               *)

\* the argparse defaults of parse_arguments
ArgDefaults ==
    [url |-> None,
     format |-> F_mp4,
     quality |-> Q720p,
     extract_audio |-> FALSE,
     audio_format |-> "mp3",
     batch |-> None,
     playlist |-> FALSE,
     output_directory |-> "./downloads",
     filename_template |-> "%(title)s.%(ext)s",
     download_subtitles |-> FALSE,
     subtitle_languages |-> <<"en">>,
     retry_attempts |-> 3,
     timeout |-> 30,
     rate_limit |-> None,
     config |-> "config.yaml",
     info |-> FALSE,
     stats |-> FALSE]

\* parse_arguments: the flags given on the command line over the defaults
parse_arguments(given) == given @@ ArgDefaults

\* the command lines of the model
CommandLines ==
    {u @@ b @@ p @@ i @@ st @@ r :
        u \in {<< >>, [url |-> "u1"]},
        b \in {<< >>, [batch |-> "urls.txt"]},
        p \in {<< >>, [playlist |-> TRUE]},
        i \in {<< >>, [info |-> TRUE]},
        st \in {<< >>, [stats |-> TRUE]},
        r \in {<< >>, [rate_limit |-> "1M", quality |-> S_best]}}

\* what is at the --config path
CliConfigFiles ==
    {f \in ConfigFiles : ~f.exists \/ (f.suffix \in {".yaml", ".txt"} /\ f.parse = "ok")}

\* str.strip() on the lines of the model
Strip(line) ==
    CASE line = " u2 " -> "u2"
      [] line = "   " -> ""
      [] line = " #x" -> "#x"
      [] OTHER -> line

\* str.startswith('#') on the lines of the model
StartsWithHash(line) == line \in {"#u2"}

\* the list comprehension of load_batch_urls
RECURSIVE StripLines(_)
StripLines(lines) ==
    IF lines = << >> THEN << >>
    ELSE (IF Strip(Head(lines)) # "" /\ ~StartsWithHash(Head(lines))
          THEN <<Strip(Head(lines))>> ELSE << >>) \o StripLines(Tail(lines))

\* what can be at the --batch path
BatchFiles ==
    {[state |-> "missing", lines |-> << >>],
     [state |-> "unreadable", lines |-> << >>],
     [state |-> "ok", lines |-> << >>],
     [state |-> "ok", lines |-> <<"u1", "", "#u2", " u2 ">>],
     [state |-> "ok", lines |-> <<"   ", " #x", "u1">>],
     [state |-> "ok", lines |-> <<"u2", "u2">>]}

\* load_batch_urls: the URL list, or sys.exit(1)
load_batch_urls(file) ==
    IF file.state = "ok"
    THEN [exit |-> NoExit, urls |-> StripLines(file.lines)]
    ELSE [exit |-> 1, urls |-> << >>]

\* print_video_info: formatting view_count with ',' raises TypeError on None
print_video_info(info) ==
    IF info.absent THEN "Failed to retrieve video information."
    ELSE IF info.view_count = None THEN "TypeError"
    ELSE "Title"

\* main: the download_opts dict
download_opts(a) ==
    [format |-> a.format,
     quality |-> a.quality,
     extract_audio |-> a.extract_audio,
     audio_format |-> a.audio_format,
     output_directory |-> a.output_directory,
     filename_template |-> a.filename_template,
     download_subtitles |-> a.download_subtitles,
     subtitle_languages |-> a.subtitle_languages,
     retry_attempts |-> a.retry_attempts,
     timeout |-> a.timeout]
    @@ (IF Truthy(a.rate_limit) THEN [rate_limit |-> a.rate_limit] ELSE << >>)

\* a main that does not look at what download_single or download_playlist returned
main_after_download_ignores_result(r) == IF r.kind = "raise" THEN 1 ELSE NoExit

\* main: what follows the download call that ended as r: the exit status, or
\* NoExit to go on to the statistics
main_after_download(r) ==
    IF r.kind = "raise" THEN 1
    ELSE IF r.op = "batch" THEN NoExit
    ELSE IF r.value THEN NoExit
    ELSE 1

\* main: the line printed after the download call
main_report(r) ==
    IF r.kind = "raise" THEN "Download interrupted by user."
    ELSE IF r.op = "batch" THEN "Batch download completed:"
    ELSE IF r.op = "playlist"
         THEN IF r.value THEN "Playlist download completed successfully!"
              ELSE "Playlist download failed."
    ELSE IF r.value THEN "Download completed successfully!" ELSE "Download failed."

\* sys.exit(n), or main returning (n = 0)
Exit(n) ==
    /\ exit_code' = n
    /\ cli_pc' = "exited"

\* main: the argument check
MainValidate ==
    /\ cli_pc = "start"
    /\ IF ~Truthy(args.url) /\ ~Truthy(args.batch)
       THEN /\ Exit(1)
            /\ stdout' = Append(stdout, "Error: Please provide either a URL or a batch file.")
       ELSE /\ cli_pc' = "init"
            /\ UNCHANGED <<exit_code, stdout>>
    /\ UNCHANGED <<objVars, download_stats, callVars, failing, args, batch_file>>

\* main: the downloader is constructed
MainInit ==
    /\ cli_pc = "init"
    /\ \E file \in CliConfigFiles : __init__(file)
    /\ IF obj'.state = "raised"
       THEN /\ Exit(1)
            /\ stdout' = Append(stdout, "Error initializing downloader")
       ELSE /\ cli_pc' = "ready"
            /\ UNCHANGED <<exit_code, stdout>>
    /\ UNCHANGED <<callVars, failing, args, batch_file>>

\* main: --info
MainInfo ==
    /\ cli_pc = "ready" /\ args.info
    /\ IF Truthy(args.url)
       THEN \E view_count \in {None, "1"} :
              LET line == print_video_info(get_video_info(args.url, view_count))
              IN  /\ Exit(IF line = "TypeError" THEN 1 ELSE 0)
                  /\ stdout' = Append(stdout, line)
       ELSE /\ Exit(1)
            /\ stdout' = Append(stdout, "Error: --info requires a URL")
    /\ UNCHANGED <<objVars, download_stats, callVars, failing, args, batch_file>>

\* main: the download call of the chosen mode is made
MainDownload ==
    /\ cli_pc = "ready" /\ ~args.info
    /\ IF Truthy(args.batch)
       THEN LET r == load_batch_urls(batch_file)
            IN  IF r.exit # NoExit
                THEN /\ Exit(r.exit)
                     /\ stdout' = Append(stdout, "Error: Batch file")
                     /\ UNCHANGED <<objVars, download_stats, callVars, failing>>
                ELSE /\ Call("batch", r.urls, download_opts(args))
                     /\ cli_pc' = "download"
                     /\ stdout' = Append(stdout, "Starting batch download")
                     /\ UNCHANGED exit_code
       ELSE /\ Call(IF args.playlist THEN "playlist" ELSE "single", <<args.url>>,
                    download_opts(args))
            /\ cli_pc' = "download"
            /\ stdout' = Append(stdout, IF args.playlist THEN "Starting playlist download..."
                                        ELSE "Starting single video download...")
            /\ UNCHANGED exit_code
    /\ UNCHANGED <<args, batch_file>>

\* main: the download call has ended
MainAfterDownload ==
    /\ cli_pc = "download" /\ op = "idle"
    /\ stdout' = Append(stdout, main_report(ret))
    /\ IF main_after_download(ret) = NoExit
       THEN /\ cli_pc' = "stats"
            /\ UNCHANGED exit_code
       ELSE Exit(main_after_download(ret))
    /\ UNCHANGED <<objVars, download_stats, callVars, failing, args, batch_file>>

\* main: --stats, and the end of main
MainStats ==
    /\ cli_pc = "stats"
    /\ stdout' = IF args.stats
                 THEN Append(stdout, "Download Statistics:")
                 ELSE stdout
    /\ Exit(0)
    /\ UNCHANGED <<objVars, download_stats, callVars, failing, args, batch_file>>

CliInit ==
    /\ obj = NoObj
    /\ config = << >>
    /\ download_stats = ZeroStats
    /\ op = "idle"
    /\ stage = "idle"
    /\ kwargs = << >>
    /\ urls = << >>
    /\ idx = 0
    /\ results = << >>
    /\ engine = NoEngine
    /\ ret = NoRet
    /\ call = ZeroStats
    /\ log = << >>
    /\ failing \in SUBSET URLs
    /\ args \in {parse_arguments(g) : g \in CommandLines}
    /\ cli_pc = "start"
    /\ exit_code = NoExit
    /\ batch_file \in (IF Truthy(args.batch) THEN BatchFiles ELSE {NoFile})
    /\ stdout = << >>

CliNext ==
    \/ MainValidate
    \/ MainInit
    \/ MainInfo
    \/ MainDownload
    \/ MainAfterDownload
    \/ MainStats
    \/ download_single
    \/ download_batch
    \/ download_batch_return
    \/ download_playlist
    \/ ProgressDownloading
    \/ ProgressFinished
    \/ EngineReturn
    \/ EngineRaise
    \/ Interrupt

CliSpec == CliInit /\ [][CliNext]_vars

-----------------------------------------------------------------------------
(* The Option Resolver on its own: _get_ydl_opts applied to a Configuration   *)
(* and a set of overrides.                                                    *)

\* command lines that vary the options the resolver reads
OptCommandLines ==
    {q @@ f @@ a @@ r :
        q \in {<< >>, [quality |-> S_best], [quality |-> S_worst], [quality |-> Q480p]},
        f \in {<< >>, [format |-> F_webm], [format |-> S_best]},
        a \in {<< >>, [extract_audio |-> TRUE]},
        r \in {<< >>, [rate_limit |-> "1M"]}}

\* the overrides: what main passes, and what a caller of the class may pass
OptKwargs ==
    {download_opts(parse_arguments(g)) : g \in OptCommandLines}
    \cup {<< >>,
          [quality |-> S_worst],
          [format |-> F_webm, extract_audio |-> TRUE],
          [rate_limit |-> "1M"],
          [rate_limit |-> "1M", quality |-> Q480p, format |-> F_webm],
          [retry_attempts |-> 7, timeout |-> 5, download_subtitles |-> TRUE],
          [subtitle_languages |-> <<"fr", "en">>, audio_format |-> "m4a",
           output_directory |-> "/tmp", filename_template |-> "%(id)s"]}

\* the Configurations
OptConfigs ==
    {_get_default_config,
     CustomConfig,
     [CustomConfig EXCEPT !.extract_audio = TRUE, !.rate_limit = ""],
     [_get_default_config EXCEPT !.default_quality = S_worst],
     PartialConfig}

OptInit ==
    /\ obj = [state |-> "ready", config_file |-> None]
    /\ config \in OptConfigs
    /\ download_stats = ZeroStats
    /\ op = "idle"
    /\ stage = "idle"
    /\ kwargs \in OptKwargs
    /\ urls = << >>
    /\ idx = 0
    /\ results = << >>
    /\ engine = NoEngine
    /\ ret = NoRet
    /\ call = ZeroStats
    /\ log = << >>
    /\ failing = {}
    /\ args = NoArgs
    /\ cli_pc = "off"
    /\ exit_code = NoExit
    /\ batch_file = NoFile
    /\ stdout = << >>

\* opts = self._get_ydl_opts(**kwargs)
ResolveOptions ==
    /\ ret = NoRet
    /\ \E mkdir_ok \in BOOLEAN :
         LET r == _get_ydl_opts(config, kwargs, mkdir_ok)
         IN  ret' = [op |-> "_get_ydl_opts",
                     kind |-> IF r.raised THEN "raise" ELSE "return",
                     value |-> r.opts,
                     cause |-> IF r.raised THEN "options" ELSE "none"]
    /\ UNCHANGED <<objVars, download_stats, op, stage, kwargs, urls, idx, results, engine,
                   call, log, failing, cliVars>>

OptNext == ResolveOptions

OptSpec == OptInit /\ [][OptNext]_vars

-----------------------------------------------------------------------------
(* Fairness: the interpreter runs the next statement of a call in progress,   *)
(* and an engine call ends (it returns or raises).  Nothing obliges the       *)
(* calling program to make a call, the engine to report progress, or the user *)
(* to interrupt.                                                              *)

Fairness ==
    /\ WF_vars(download_single)
    /\ WF_vars(download_batch)
    /\ WF_vars(download_batch_return)
    /\ WF_vars(download_playlist)
    /\ WF_vars(EngineReturn)
    /\ WF_vars(EngineRaise)

LiveSpec == Init /\ [][Next]_vars /\ Fairness

-----------------------------------------------------------------------------
(* Properties *)

Range(s) == {s[i] : i \in DOMAIN s}

Distinct(s) == \A i, j \in DOMAIN s : i # j => s[i] # s[j]

RECURSIVE SumOf(_, _)
SumOf(s, field) == IF s = << >> THEN 0 ELSE Head(s)[field] + SumOf(Tail(s), field)

\* the URLs download_single has completed for within the call, in order
Attempted == [i \in DOMAIN log |-> log[i].url]

BatchReturned == ret.op = "batch" /\ ret.kind = "return"

\* the statistics were all zero when the download call began: every change since
\* is a change made within one of its download_single calls
FreshAtEntry ==
    /\ download_stats.total_downloads = SumOf(log, "d_total")
    /\ download_stats.failed_downloads = SumOf(log, "d_failed")
    /\ download_stats.successful_downloads = SumOf(log, "d_successful")
    /\ download_stats.total_size = SumOf(log, "d_size")

\* the failing subset F of the batch's URLs
FailingOf(us) == failing \cap Range(us)

BatchOutcome ==
    /\ Cardinality(DOMAIN ret.value) = Len(urls)
    /\ {u \in DOMAIN ret.value : ~ret.value[u]} = FailingOf(urls)
    /\ download_stats.failed_downloads = Cardinality(FailingOf(urls))
    /\ download_stats.total_downloads = Len(urls)

\* C1 as stated: whenever download_batch returns for a list of N URLs, on
\* statistics that were all zero at its entry, the mapping has N entries, its
\* False entries are exactly the URLs the engine raises on, failed_downloads is
\* their number and total_downloads is N.
C1_BatchOutcomeAnyList == (BatchReturned /\ FreshAtEntry) => BatchOutcome

\* C1 amended: the same for a list of pairwise distinct URLs when option
\* resolution raises for none of them.
C1_BatchOutcomeDistinct ==
    (/\ BatchReturned
     /\ FreshAtEntry
     /\ Distinct(urls)
     /\ \A i \in DOMAIN log : log[i].cause # "options") => BatchOutcome

C1_Witness ==
    /\ BatchReturned
    /\ FreshAtEntry
    /\ Distinct(urls)
    /\ \A i \in DOMAIN log : log[i].cause # "options"
    /\ Len(urls) = 2
    /\ Cardinality(FailingOf(urls)) = 1

\* C2: every completed download_single has raised total_downloads by exactly
\* one and has returned, never let an exception out; if option resolution or the
\* engine raised it returned False and raised failed_downloads by exactly one, and
\* otherwise it returned True and left failed_downloads alone.  While its engine
\* call runs, total_downloads is already one above its value at entry.
C2_SingleAccounting ==
    /\ \A i \in DOMAIN log :
         /\ log[i].d_total = 1
         /\ log[i].kind = "return"
         /\ log[i].cause # "none" => (log[i].ret = FALSE /\ log[i].d_failed = 1)
         /\ log[i].cause = "none" => (log[i].ret = TRUE /\ log[i].d_failed = 0)
    /\ (stage = "engine" /\ op \in {"single", "batch"}) =>
         /\ download_stats.total_downloads = call.total_downloads + 1
         /\ download_stats.failed_downloads = call.failed_downloads
    /\ (ret.op = "single" /\ ret.cause \in {"none", "options", "engine"}) =>
         /\ ret.kind = "return"
         /\ Len(log) = 1
         /\ ret.value = log[1].ret

C2_Witness ==
    /\ ret.op = "single"
    /\ ret.cause = "engine"
    /\ ret.value = FALSE
    /\ download_stats.failed_downloads = call.failed_downloads + 1

\* the configuration files the loader must answer with the defaults
Malformed(file) ==
    \/ ~file.exists
    \/ ~file.readable
    \/ SuffixLower(file.suffix) \notin {".yaml", ".json"}
    \/ file.parse # "ok"

DefaultRecordKeys ==
    {"default_quality", "default_format", "output_directory", "retry_attempts", "timeout",
     "download_subtitles", "subtitle_languages", "rate_limit"}

\* C3 as stated: the constructor never raises, and for a missing, unrecognized or
\* unparsable configuration file the loaded configuration is the default record.
C3_ConstructorNeverRaises ==
    /\ obj.state # "raised"
    /\ (obj.state = "ready" /\ Malformed(obj.config_file)) =>
         \A k \in DefaultRecordKeys :
           k \in DOMAIN config /\ config[k] = _get_default_config[k]

NonDecreasing(a, b) ==
    /\ a.total_downloads <= b.total_downloads
    /\ a.successful_downloads <= b.successful_downloads
    /\ a.failed_downloads <= b.failed_downloads
    /\ a.total_size <= b.total_size

\* C5: a step that is a reset_stats call leaves all four counters zero, and in
\* every other step no counter decreases.
C5_CountersMonotone ==
    [][IF ret'.op = "reset"
       THEN download_stats' = ZeroStats
       ELSE NonDecreasing(download_stats, download_stats')]_vars

C5_Witness ==
    /\ ret.op = "reset"
    /\ download_stats = ZeroStats
    /\ call.total_downloads > 0
    /\ call.successful_downloads > 0
    /\ call.failed_downloads > 0
    /\ call.total_size > 0

\* C8 as stated: when the engine raises during download_playlist the call
\* returns False and failed_downloads has grown by one, as in download_single.
C8_PlaylistFailureCounted ==
    (ret.op = "playlist" /\ ret.cause = "engine") =>
      /\ ret.kind = "return"
      /\ ret.value = FALSE
      /\ download_stats.failed_downloads = call.failed_downloads + 1

\* C10: successful_downloads changes only in a step of a running engine that
\* changes nothing but the statistics (a 'finished' event), by one, and such a
\* step leaves failed_downloads alone; failed_downloads changes only in a step
\* that ends a download_single with False after a raise, by one, and such a step
\* leaves successful_downloads alone.  (reset_stats apart.)
C10_CountersIndependent ==
    [][ret'.op # "reset" =>
         /\ download_stats'.successful_downloads # download_stats.successful_downloads =>
              /\ stage = "engine"
              /\ UNCHANGED <<objVars, callVars, failing, cliVars>>
              /\ download_stats'.successful_downloads
                   = download_stats.successful_downloads + 1
              /\ download_stats'.failed_downloads = download_stats.failed_downloads
         /\ download_stats'.failed_downloads # download_stats.failed_downloads =>
              /\ op \in {"single", "batch"}
              /\ Len(log') = Len(log) + 1
              /\ log'[Len(log')].ret = FALSE
              /\ log'[Len(log')].cause \in {"options", "engine"}
              /\ download_stats'.failed_downloads = download_stats.failed_downloads + 1
              /\ download_stats'.successful_downloads
                   = download_stats.successful_downloads]_vars

\* one attempt in which both counters were incremented and one in which neither
\* was
C10_Witness ==
    /\ \E i \in DOMAIN log :
         log[i].d_total = 1 /\ log[i].d_successful = 1 /\ log[i].d_failed = 1
    /\ \E j \in DOMAIN log :
         log[j].d_total = 1 /\ log[j].d_successful = 0 /\ log[j].d_failed = 0
                            /\ log[j].ret = TRUE

\* C9: inside download_batch the download_single calls completed so far are
\* those for the first idx elements of the list, in order, one per element, and
\* an engine call in progress is the one for the next element; a download_single
\* that ends with False leaves the call in its loop; when the call returns every
\* element has been attempted; and a call in progress always ends: it returns,
\* unless the user interrupts it.
C9_BatchSequential ==
    /\ [](op = "batch" =>
            /\ Len(log) = idx
            /\ Attempted = SubSeq(urls, 1, idx)
            /\ stage = "engine" => (idx < Len(urls) /\ engine.url = urls[idx + 1]))
    /\ [](BatchReturned => (Attempted = urls /\ DOMAIN ret.value = Range(urls)))
    /\ [][(op = "batch" /\ Len(log') = Len(log) + 1 /\ ~log'[Len(log')].ret) =>
            (op' = "batch" /\ stage' = "loop" /\ idx' = idx + 1)]_vars
    /\ (op = "batch") ~> (ret.op = "batch" /\ ret.cause \in {"none", "interrupt"})

\* a batch returned whose first element failed and whose second was attempted
C9_Witness ==
    /\ BatchReturned
    /\ Len(urls) = 2
    /\ Len(log) = 2
    /\ log[1].ret = FALSE
    /\ log[2].url = urls[2]

\* the selector the claim gives for extract_audio ea, quality q, format f
IsHeightP(q) ==
    /\ Len(q) >= 2
    /\ q[Len(q)] = "p"
    /\ \A i \in 1..(Len(q) - 1) : q[i] \in Digits

ClaimedSelector(ea, q, f) ==
    IF ea THEN <<"b", "e", "s", "t", "a", "u", "d", "i", "o", "/", "b", "e", "s", "t">>
    ELSE IF q = S_best
         THEN <<"b", "e", "s", "t", "[", "e", "x", "t", "=">> \o f
                \o <<"]", "/", "b", "e", "s", "t">>
    ELSE IF q = S_worst
         THEN <<"w", "o", "r", "s", "t", "[", "e", "x", "t", "=">> \o f
                \o <<"]", "/", "w", "o", "r", "s", "t">>
    ELSE LET H == SubSeq(q, 1, Len(q) - 1)
         IN  <<"b", "e", "s", "t", "[", "h", "e", "i", "g", "h", "t", "<", "=">> \o H
               \o <<"]", "[", "e", "x", "t", "=">> \o f
               \o <<"]", "/", "b", "e", "s", "t", "[", "h", "e", "i", "g", "h", "t", "<", "=">>
               \o H \o <<"]", "/", "b", "e", "s", "t">>

\* the value an option resolves to: the override when present, else the
\* Configuration's
Resolved(key, config_key) == Get(kwargs, key, config[config_key])

OptionsResolved == ret.op = "_get_ydl_opts" /\ ret.kind = "return"

\* C6: the 'format' option is the claimed selector of the resolved
\* extract_audio, quality and format, for quality best, worst or Hp.
C6_FormatSelector ==
    OptionsResolved =>
      LET ea == Resolved("extract_audio", "extract_audio")
          q == Resolved("quality", "default_quality")
          f == Resolved("format", "default_format")
      IN  (ea \/ q \in {S_best, S_worst} \/ IsHeightP(q)) =>
            ret.value.format = ClaimedSelector(ea, q, f)

\* 480p / webm without audio extraction: best[height<=480][ext=webm]/best[height<=480]/best
C6_Witness ==
    /\ OptionsResolved
    /\ ~Resolved("extract_audio", "extract_audio")
    /\ Resolved("quality", "default_quality") = Q480p
    /\ Resolved("format", "default_format") = F_webm
    /\ ret.value.format =
         <<"b", "e", "s", "t", "[", "h", "e", "i", "g", "h", "t", "<", "=", "4", "8", "0", "]",
           "[", "e", "x", "t", "=", "w", "e", "b", "m", "]", "/",
           "b", "e", "s", "t", "[", "h", "e", "i", "g", "h", "t", "<", "=", "4", "8", "0", "]",
           "/", "b", "e", "s", "t">>

\* C4 as stated: every entry of the option record is the override when the
\* override key is present and the Configuration value otherwise, the rate limit
\* included.
C4_OverridePrecedence ==
    OptionsResolved =>
      LET o == ret.value
          rate == Resolved("rate_limit", "rate_limit")
      IN  /\ o.outtmpl = PathJoin(Resolved("output_directory", "output_directory"),
                                  Resolved("filename_template", "filename_template"))
          /\ o.writesubtitles = Resolved("download_subtitles", "download_subtitles")
          /\ o.writeautomaticsub = Resolved("download_subtitles", "download_subtitles")
          /\ o.subtitleslangs = Resolved("subtitle_languages", "subtitle_languages")
          /\ o.extractaudio = Resolved("extract_audio", "extract_audio")
          /\ o.audioformat = Resolved("audio_format", "audio_format")
          /\ o.retries = Resolved("retry_attempts", "retry_attempts")
          /\ o.socket_timeout = Resolved("timeout", "timeout")
          /\ o.format = ClaimedSelector(Resolved("extract_audio", "extract_audio"),
                                        Resolved("quality", "default_quality"),
                                        Resolved("format", "default_format"))
          /\ IF Truthy(rate)
             THEN "ratelimit" \in DOMAIN o /\ o.ratelimit = rate
             ELSE "ratelimit" \notin DOMAIN o

\* the same without the rate limit
C4_OtherOptionsPrecedence ==
    OptionsResolved =>
      LET o == ret.value
      IN  /\ o.outtmpl = PathJoin(Resolved("output_directory", "output_directory"),
                                  Resolved("filename_template", "filename_template"))
          /\ o.writesubtitles = Resolved("download_subtitles", "download_subtitles")
          /\ o.subtitleslangs = Resolved("subtitle_languages", "subtitle_languages")
          /\ o.extractaudio = Resolved("extract_audio", "extract_audio")
          /\ o.audioformat = Resolved("audio_format", "audio_format")
          /\ o.retries = Resolved("retry_attempts", "retry_attempts")
          /\ o.socket_timeout = Resolved("timeout", "timeout")
          /\ o.format = ClaimedSelector(Resolved("extract_audio", "extract_audio"),
                                        Resolved("quality", "default_quality"),
                                        Resolved("format", "default_format"))

Exited == cli_pc = "exited"

\* a download of the run failed: a download_single or the download_playlist
\* returned False
DownloadFailed ==
    \/ \E i \in DOMAIN log : ~log[i].ret
    \/ (ret.op = "playlist" /\ ret.kind = "return" /\ ~ret.value)

\* the exit codes that do not depend on the run mode
ExitCodesCommon ==
    /\ exit_code \in {0, 1}
    /\ (~Truthy(args.url) /\ ~Truthy(args.batch)) => exit_code = 1
    /\ obj.state = "raised" => exit_code = 1
    /\ (obj.state = "ready" /\ ~args.info /\ Truthy(args.batch) /\ batch_file.state # "ok")
         => exit_code = 1
    /\ ret.cause = "interrupt" => exit_code = 1
    /\ (ret.op \in {"single", "playlist", "batch"} /\ ret.kind = "return" /\ ~DownloadFailed)
         => exit_code = 0

\* C7 as stated: the process ends with 0 on success and with 1 on a missing
\* URL/batch, a batch-file read error, an initialization error or a user
\* interrupt, and in every run mode a run in which a download failed does not end
\* with 0.
C7_ExitCodeEveryMode ==
    Exited => (ExitCodesCommon /\ (DownloadFailed => exit_code # 0))

\* C7 amended: the same, but a failed download ends the process with 1 in the
\* single and playlist modes only; a batch call that returned ends it with 0
\* whatever its downloads did.
C7_ExitCodeSingleAndPlaylist ==
    Exited =>
      /\ ExitCodesCommon
      /\ (DownloadFailed /\ ret.op \in {"single", "playlist"}) => exit_code = 1
      /\ BatchReturned => exit_code = 0

C7_Witness ==
    /\ Exited
    /\ BatchReturned
    /\ \E i \in DOMAIN log : ~log[i].ret
    /\ exit_code = 0

====
